---- MODULE Spec2Model ----
(***************************************************************************)
(* Framify: ProfileCard, WelcomeCard and RankCard.  Each generator         *)
(* normalises its options in the constructor and renders in toBuffer as a  *)
(* sequence of awaited stages over its own canvas context.                 *)
(***************************************************************************)
EXTENDS Integers, Sequences, FiniteSets, TLC

\* ------------------------------------------------------------------ bounds
\* At most this many optional fields are supplied to a constructor at once.
MaxSupplied == 1
\* currentXP and nextLevelXP range over 50 * (-1 .. MaxXPSteps).
MaxXPSteps == 3
\* A bio that is rendered has at most this many characters.
MaxBioLen == 5
\* The bios are wrapped against columns 1 .. MaxLineWidth wide.
MaxLineWidth == 4
MaxRenders == 2

\* The generator instances of one process.
CardIds == {1, 2}

VARIABLES
  kind,        \* kind[c]: "none" before construction, else "Profile" | "Welcome" | "Rank"
  input,       \* input[c]: the options value the constructor was called with
  options,     \* input[c] normalised: this.options
  calculated,  \* calculated[c]: the argument pairs calculateProgress was evaluated with
  pc,          \* pc[c]: where toBuffer of card c is suspended
  ctx,         \* ctx[c]: the state of this.ctx
  trace,       \* trace[c]: every call on the surface and every load, in order
  result       \* result[c]: what the promise returned by toBuffer settled with

vars == <<kind, input, options, calculated, pc, ctx, trace, result>>

\* ------------------------------------------------------- JavaScript values
\* An optional property is <<>> when omitted and <<v>> when supplied.
Undefined == <<>>
Given(v) == <<v>>

\* x || d, where falsy is the falsy value of x's type (0, "" or the empty text).
OrElse(x, falsy, d) ==
  IF x = Undefined THEN d ELSE IF x[1] = falsy THEN d ELSE x[1]

\* obj?.f
Member(obj, f) == IF obj = Undefined THEN Undefined ELSE obj[1][f]

\* A number that arithmetic produces: n / d with d >= 0; d = 0 is NaN (n = 0),
\* +Infinity (n > 0) or -Infinity (n < 0).
Num(k) == [n |-> k, d |-> 1]
IsNaN(x) == x.n = 0 /\ x.d = 0
Sign(k) == IF k > 0 THEN 1 ELSE IF k < 0 THEN -1 ELSE 0
Divide(a, b) ==
  IF b = 0 THEN [n |-> Sign(a), d |-> 0]
  ELSE IF b > 0 THEN [n |-> a, d |-> b] ELSE [n |-> -a, d |-> -b]
Times(x, k) == [n |-> x.n * k, d |-> x.d]
Less(x, y) == ~IsNaN(x) /\ ~IsNaN(y) /\ x.n * y.d < y.n * x.d
MathMax(a, x) == IF IsNaN(x) THEN x ELSE IF Less(x, a) THEN a ELSE x
MathMin(a, x) == IF IsNaN(x) THEN x ELSE IF Less(a, x) THEN a ELSE x

\* ------------------------------------------------------------ constructors
calculateProgressNoMin(currentXP, nextLevelXP) ==
  MathMax(Num(0), Times(Divide(currentXP, nextLevelXP), 100))

calculateProgress(currentXP, nextLevelXP) ==
  MathMin(Num(100), MathMax(Num(0), Times(Divide(currentXP, nextLevelXP), 100)))

getStatusColorOnlineDefault(status) ==
  CASE status = "online" -> "#43B581"
    [] status = "idle" -> "#FAA61A"
    [] status = "dnd" -> "#F04747"
    [] status = "offline" -> "#747F8D"
    [] OTHER -> "#43B581"

getStatusColor(status) ==
  CASE status = "online" -> "#43B581"
    [] status = "idle" -> "#FAA61A"
    [] status = "dnd" -> "#F04747"
    [] status = "offline" -> "#747F8D"
    [] OTHER -> "#747F8D"

\* The left operand of `options.progress || this.calculateProgress(...)` is falsy.
ProgressIsFalsy(o) == o.progress = Undefined \/ o.progress[1].n = 0

ProfileCard(o) ==
  [ username |-> o.username,
    discriminator |-> OrElse(o.discriminator, "", "#0000"),
    avatarUrl |-> o.avatarUrl,
    status |-> OrElse(o.status, "", "online"),
    statusColor |-> OrElse(o.statusColor, "", getStatusColor(OrElse(o.status, "", "online"))),
    bio |-> OrElse(o.bio, <<>>, <<>>),
    badges |-> IF o.badges = Undefined THEN <<>> ELSE o.badges[1],
    backgroundColor |-> OrElse(o.backgroundColor, "", "#2C2F33"),
    textColor |-> OrElse(o.textColor, "", "#FFFFFF"),
    accentColor |-> OrElse(o.accentColor, "", "#7289DA"),
    backgroundImage |-> OrElse(o.backgroundImage, "", ""),
    fontSize |->
      [ username |-> OrElse(Member(o.fontSize, "username"), 0, 32),
        bio |-> OrElse(Member(o.fontSize, "bio"), 0, 16),
        badges |-> OrElse(Member(o.fontSize, "badges"), 0, 14) ],
    padding |->
      [ top |-> OrElse(Member(o.padding, "top"), 0, 30),
        right |-> OrElse(Member(o.padding, "right"), 0, 30),
        bottom |-> OrElse(Member(o.padding, "bottom"), 0, 30),
        left |-> OrElse(Member(o.padding, "left"), 0, 30) ],
    borderRadius |-> OrElse(o.borderRadius, 0, 10),
    layout |-> OrElse(o.layout, "", "vertical") ]

WelcomeCard(o) ==
  [ username |-> o.username,
    discriminator |-> OrElse(o.discriminator, "", "#0000"),
    avatarUrl |-> o.avatarUrl,
    serverName |-> o.serverName,
    memberCount |-> OrElse(o.memberCount, 0, 0),
    backgroundColor |-> OrElse(o.backgroundColor, "", "#2C2F33"),
    textColor |-> OrElse(o.textColor, "", "#FFFFFF"),
    accentColor |-> OrElse(o.accentColor, "", "#7289DA"),
    backgroundImage |-> OrElse(o.backgroundImage, "", ""),
    fontSize |->
      [ title |-> OrElse(Member(o.fontSize, "title"), 0, 60),
        subtitle |-> OrElse(Member(o.fontSize, "subtitle"), 0, 28),
        memberCount |-> OrElse(Member(o.fontSize, "memberCount"), 0, 20) ],
    padding |->
      [ top |-> OrElse(Member(o.padding, "top"), 0, 60),
        right |-> OrElse(Member(o.padding, "right"), 0, 60),
        bottom |-> OrElse(Member(o.padding, "bottom"), 0, 60),
        left |-> OrElse(Member(o.padding, "left"), 0, 60) ],
    borderRadius |-> OrElse(o.borderRadius, 0, 15) ]

RankCard(o) ==
  [ username |-> o.username,
    discriminator |-> OrElse(o.discriminator, "", "#0000"),
    avatarUrl |-> o.avatarUrl,
    rank |-> o.rank,
    level |-> o.level,
    currentXP |-> o.currentXP,
    nextLevelXP |-> o.nextLevelXP,
    progress |->
      IF ProgressIsFalsy(o) THEN calculateProgress(o.currentXP, o.nextLevelXP)
      ELSE o.progress[1],
    backgroundColor |-> OrElse(o.backgroundColor, "", "#2C2F33"),
    textColor |-> OrElse(o.textColor, "", "#FFFFFF"),
    accentColor |-> OrElse(o.accentColor, "", "#7289DA"),
    rankColor |-> OrElse(o.rankColor, "", "#FFD700"),
    levelColor |-> OrElse(o.levelColor, "", "#7289DA"),
    progressBarColor |-> OrElse(o.progressBarColor, "", "#43B581"),
    progressBarBackgroundColor |-> OrElse(o.progressBarBackgroundColor, "", "#23272A"),
    backgroundImage |-> OrElse(o.backgroundImage, "", ""),
    fontSize |->
      [ username |-> OrElse(Member(o.fontSize, "username"), 0, 32),
        rank |-> OrElse(Member(o.fontSize, "rank"), 0, 24),
        level |-> OrElse(Member(o.fontSize, "level"), 0, 20),
        xp |-> OrElse(Member(o.fontSize, "xp"), 0, 16) ],
    padding |->
      [ top |-> OrElse(Member(o.padding, "top"), 0, 30),
        right |-> OrElse(Member(o.padding, "right"), 0, 30),
        bottom |-> OrElse(Member(o.padding, "bottom"), 0, 30),
        left |-> OrElse(Member(o.padding, "left"), 0, 30) ],
    borderRadius |-> OrElse(o.borderRadius, 0, 10),
    showProgress |-> IF o.showProgress # Undefined THEN o.showProgress[1] ELSE TRUE ]

\* The calls of calculateProgress the RankCard constructor makes for o.
RankCardCalculates(o) ==
  IF ProgressIsFalsy(o) THEN << <<o.currentXP, o.nextLevelXP>> >> ELSE <<>>

\* ------------------------------------------------- the callers' option values
\* Text that is measured, split or searched is a sequence of characters or tokens.
LocalAvatar == <<"./", "avatar.png">>
RemoteAvatar == <<"https", "://", "cdn.example/avatar.png">>

PaddingFields == <<"top", "right", "bottom", "left">>
FontSizeFields(k) ==
  CASE k = "Profile" -> <<"username", "bio", "badges">>
    [] k = "Welcome" -> <<"title", "subtitle", "memberCount">>
    [] k = "Rank" -> <<"username", "rank", "level", "xp">>

OptionalFields(k) ==
  CASE k = "Profile" ->
         {"discriminator", "status", "statusColor", "bio", "badges", "backgroundColor",
          "textColor", "accentColor", "backgroundImage", "fontSize", "padding",
          "borderRadius", "layout"}
    [] k = "Welcome" ->
         {"discriminator", "memberCount", "backgroundColor", "textColor", "accentColor",
          "backgroundImage", "fontSize", "padding", "borderRadius"}
    [] k = "Rank" ->
         {"discriminator", "progress", "backgroundColor", "textColor", "accentColor",
          "rankColor", "levelColor", "progressBarColor", "progressBarBackgroundColor",
          "backgroundImage", "fontSize", "padding", "borderRadius", "showProgress"}

\* A nested object: {} first, then each one of its fields supplied as 0 and as 18.
NestedValues(fields) ==
  LET none == [i \in 1..Len(fields) |-> Undefined]
      obj(g) == [f \in {fields[i] : i \in 1..Len(fields)} |->
                   g[CHOOSE i \in 1..Len(fields) : fields[i] = f]]
  IN <<obj(none)>> \o
     [j \in 1..(2 * Len(fields)) |->
        obj([none EXCEPT ![(j + 1) \div 2] = Given(IF j % 2 = 1 THEN 0 ELSE 18)])]

\* The values a caller may supply for field f of card type k, the falsy one first.
Candidates(k, f) ==
  CASE f = "status" -> <<"", "online", "idle", "dnd", "offline", "busy">>
    [] f = "layout" -> <<"", "horizontal", "vertical">>
    [] f = "bio" -> << <<>>, <<"a", " ", "b">> >>
    [] f = "badges" -> << <<>>, << <<"d", "e", "v">> >> >>
    [] f = "discriminator" -> <<"", "#1234">>
    [] f = "backgroundImage" -> <<"", "./bg.png">>
    [] f \in {"borderRadius", "memberCount"} -> <<0, 25>>
    [] f = "progress" -> <<Num(0), Num(50), Num(150), Num(-5)>>
    [] f = "showProgress" -> <<FALSE, TRUE>>
    [] f = "fontSize" -> NestedValues(FontSizeFields(k))
    [] f = "padding" -> NestedValues(PaddingFields)
    [] OTHER -> <<"", "#123456">>

XPValues == {50 * i : i \in -1..MaxXPSteps}

\* The required fields of card type k.
Required(k, avatarUrl, currentXP, nextLevelXP) ==
  CASE k = "Profile" -> [username |-> "user", avatarUrl |-> avatarUrl]
    [] k = "Welcome" -> [username |-> "user", avatarUrl |-> avatarUrl, serverName |-> "srv"]
    [] k = "Rank" -> [username |-> "user", avatarUrl |-> avatarUrl, rank |-> 1, level |-> 2,
                      currentXP |-> currentXP, nextLevelXP |-> nextLevelXP]

\* The sets of optional fields a caller supplies, and the value chosen for each.
SuppliedFields(k) == {S \in SUBSET OptionalFields(k) : Cardinality(S) <= MaxSupplied}
Choices(k, S) ==
  LET most == CHOOSE m \in 1..20 : \A f \in OptionalFields(k) : Len(Candidates(k, f)) <= m
  IN {pick \in [S -> 1..most] : \A f \in S : pick[f] <= Len(Candidates(k, f))}

\* The options value with the fields of S supplied as picked and the others omitted.
Options(k, S, pick, required) ==
  [f \in OptionalFields(k) |->
     IF f \in S THEN Given(Candidates(k, f)[pick[f]]) ELSE Undefined] @@ required

\* ------------------------------------------------------------ the surface
CanvasWidth(k) == CASE k = "Profile" -> 800 [] k = "Welcome" -> 1024 [] k = "Rank" -> 900
CanvasHeight(k) == CASE k = "Profile" -> 400 [] k = "Welcome" -> 500 [] k = "Rank" -> 300

\* canvas.getContext('2d'): the state of a fresh context (globalAlpha in percent).
NewContext ==
  [ fillStyle |-> <<"#000000">>, strokeStyle |-> "#000000", lineWidth |-> 1,
    font |-> [bold |-> FALSE, size |-> 10], globalAlpha |-> 100, textAlign |-> "start",
    filter |-> "none", path |-> <<>>, clip |-> <<>>, stack |-> <<>> ]

\* The part of the context state that save() pushes and restore() pops.
Saved(cx) ==
  [ fillStyle |-> cx.fillStyle, strokeStyle |-> cx.strokeStyle, lineWidth |-> cx.lineWidth,
    font |-> cx.font, globalAlpha |-> cx.globalAlpha, textAlign |-> cx.textAlign,
    filter |-> cx.filter, clip |-> cx.clip ]

\* The calls the generators make on the context.
Set(prop, value) == [call |-> "set", prop |-> prop, value |-> value]
FillRect(x, y, w, h) == [call |-> "fillRect", x |-> x, y |-> y, w |-> w, h |-> h]
StrokeRect(x, y, w, h) == [call |-> "strokeRect", x |-> x, y |-> y, w |-> w, h |-> h]
DrawImage(image, x, y, w, h) ==
  [call |-> "drawImage", image |-> image, x |-> x, y |-> y, w |-> w, h |-> h]
FillText(part, text, x, y) == [call |-> "fillText", part |-> part, text |-> text, x |-> x, y |-> y]
Arc(x, y, r) == [call |-> "arc", x |-> x, y |-> y, r |-> r]
PathTo(op, points) == [call |-> op, points |-> points]
Call(name) == [call |-> name]

PathCalls == {"arc", "moveTo", "lineTo", "quadraticCurveTo", "closePath"}
Painting == {"fillRect", "strokeRect", "drawImage", "fillText", "fill"}

\* The context after one call.
Apply(cx, call) ==
  CASE call.call = "set" -> [cx EXCEPT ![call.prop] = call.value]
    [] call.call = "save" -> [cx EXCEPT !.stack = Append(@, Saved(cx))]
    [] call.call = "restore" ->
         IF cx.stack = <<>> THEN cx
         ELSE LET top == cx.stack[Len(cx.stack)]
              IN [ fillStyle |-> top.fillStyle, strokeStyle |-> top.strokeStyle,
                   lineWidth |-> top.lineWidth, font |-> top.font,
                   globalAlpha |-> top.globalAlpha, textAlign |-> top.textAlign,
                   filter |-> top.filter, clip |-> top.clip, path |-> cx.path,
                   stack |-> SubSeq(cx.stack, 1, Len(cx.stack) - 1) ]
    [] call.call = "beginPath" -> [cx EXCEPT !.path = <<>>]
    [] call.call \in PathCalls -> [cx EXCEPT !.path = Append(@, call)]
    [] call.call = "clip" -> [cx EXCEPT !.clip = Append(@, cx.path)]
    [] OTHER -> cx

\* What the trace keeps of a call: the stage that made it and, for what it paints,
\* the clip, style, alpha and filter it was painted under.
Entry(stage, cx, call) ==
  [ event |-> "call", stage |-> stage, call |-> call, clip |-> cx.clip,
    fillStyle |-> cx.fillStyle, globalAlpha |-> cx.globalAlpha, filter |-> cx.filter ]

RECURSIVE RunCalls(_, _, _, _)
RunCalls(cx, tr, stage, calls) ==
  IF calls = <<>> THEN [ctx |-> cx, trace |-> tr]
  ELSE RunCalls(Apply(cx, Head(calls)), Append(tr, Entry(stage, cx, Head(calls))),
                stage, Tail(calls))

\* ------------------------------------------------------------------- text
\* String.prototype.split(' '), on a text given as its sequence of characters.
RECURSIVE SplitFrom(_, _, _, _)
SplitFrom(s, i, word, words) ==
  IF i > Len(s) THEN Append(words, word)
  ELSE IF s[i] = " " THEN SplitFrom(s, i + 1, <<>>, Append(words, word))
  ELSE SplitFrom(s, i + 1, Append(word, s[i]), words)
split(s) == SplitFrom(s, 1, <<>>, <<>>)

\* ctx.measureText(text).width: the sum of the advances of the characters.
AdvanceOf(ch) == IF ch = "b" THEN 2 ELSE 1
RECURSIVE measureText(_)
measureText(text) ==
  IF text = <<>> THEN 0 ELSE AdvanceOf(Head(text)) + measureText(Tail(text))

\* String.prototype.startsWith / includes, on a reference given as its tokens.
startsWith(s, t) == Len(s) > 0 /\ s[1] = t
includes(s, t) == \E i \in 1..Len(s) : s[i] = t

\* ----------------------------------------------------------------- stages
Plus(x, k) == [n |-> x.n + k * x.d, d |-> x.d]

\* drawBackground of ProfileCard and RankCard: the fill, the image, the overlay.
BackgroundFill(k, o) ==
  << Set("fillStyle", <<o.backgroundColor>>), FillRect(0, 0, CanvasWidth(k), CanvasHeight(k)) >>

BackgroundImage(k) ==
  << Set("globalAlpha", IF k = "Profile" THEN 20 ELSE 15),
     DrawImage("backgroundImage", 0, 0, CanvasWidth(k), CanvasHeight(k)),
     Set("globalAlpha", 100) >>

GradientOverlay(k) ==
  LET stops == CASE k = "Profile" -> <<"rgba(0, 0, 0, 0.3)", "rgba(0, 0, 0, 0.7)">>
                 [] k = "Rank" -> <<"rgba(0, 0, 0, 0.4)", "rgba(0, 0, 0, 0.6)">>
                 [] k = "Welcome" -> <<"rgba(0, 0, 0, 0.4)", "rgba(0, 0, 0, 0.7)">>
      toX == IF k = "Welcome" THEN 0 ELSE CanvasWidth(k)
  IN << PathTo("createLinearGradient", <<0, 0, toX, CanvasHeight(k)>>),
        Set("fillStyle", <<"gradient">> \o stops),
        FillRect(0, 0, CanvasWidth(k), CanvasHeight(k)) >>

\* drawBackground of WelcomeCard once the avatar is decoded.
BlurredAvatar(k) ==
  << Call("save"),
     DrawImage("avatar -> tempCanvas", 0, 0, CanvasWidth(k), CanvasHeight(k)),
     Set("filter", "blur(8px)"),
     DrawImage("tempCanvas", 0, 0, CanvasWidth(k), CanvasHeight(k)),
     Set("filter", "none"),
     Call("restore") >>

\* drawAvatar of ProfileCard and RankCard.
AvatarSize(k, o) == IF k = "Rank" THEN 80 ELSE IF o.layout = "horizontal" THEN 100 ELSE 120
AvatarY(k, o) ==
  IF k = "Profile" /\ o.layout = "horizontal" THEN Num(o.padding.top)
  ELSE Plus(Divide(CanvasHeight(k) - o.padding.top - o.padding.bottom - AvatarSize(k, o), 2),
            o.padding.top)

AvatarFrame(k, o) ==
  LET size == AvatarSize(k, o)
      cx == o.padding.left + size \div 2
      cy == Plus(AvatarY(k, o), size \div 2)
  IN << Call("beginPath"),
        Arc(cx, cy, size \div 2 + (IF k = "Rank" THEN 4 ELSE 3)),
        Set("fillStyle", <<o.accentColor>>),
        Call("fill"),
        Call("save"),
        Call("beginPath"),
        Arc(cx, cy, size \div 2),
        Call("closePath"),
        Call("clip") >>

AvatarImage(k, o) ==
  LET size == AvatarSize(k, o)
      x == o.padding.left
      y == AvatarY(k, o)
  IN << DrawImage("avatar", x, y, size, size), Call("restore") >> \o
     (IF k = "Profile"
        THEN << Call("beginPath"),
                Arc(x + size - 8 - 2 + 8, Plus(y, size - 8 - 2 + 8), 8),
                Set("fillStyle", <<o.statusColor>>),
                Call("fill") >>
        ELSE <<>>)

\* ProfileCard.drawText: the word wrap of the bio.
RECURSIVE WrapBioMeasuringLine(_, _, _, _, _, _, _, _)
WrapBioMeasuringLine(words, i, line, currentY, calls, maxWidth, x, size) ==
  IF i > Len(words) THEN [line |-> line, currentY |-> currentY, calls |-> calls]
  ELSE LET testLine == line \o words[i] \o <<" ">>
       IN IF measureText(line) > maxWidth /\ i > 1
            THEN WrapBioMeasuringLine(words, i + 1, words[i] \o <<" ">>, currentY + size + 5,
                                      Append(calls, FillText("bio", line, x, currentY + size)),
                                      maxWidth, x, size)
            ELSE WrapBioMeasuringLine(words, i + 1, testLine, currentY, calls, maxWidth, x, size)

RECURSIVE WrapBio(_, _, _, _, _, _, _, _)
WrapBio(words, i, line, currentY, calls, maxWidth, x, size) ==
  IF i > Len(words) THEN [line |-> line, currentY |-> currentY, calls |-> calls]
  ELSE LET testLine == line \o words[i] \o <<" ">>
       IN IF measureText(testLine) > maxWidth /\ i > 1
            THEN WrapBio(words, i + 1, words[i] \o <<" ">>, currentY + size + 5,
                         Append(calls, FillText("bio", line, x, currentY + size)),
                         maxWidth, x, size)
            ELSE WrapBio(words, i + 1, testLine, currentY, calls, maxWidth, x, size)

\* ProfileCard.drawText: the run of badges.  On overflow the code also advances
\* currentY, which nothing reads afterwards: every badge is drawn at badgeY.
RECURSIVE BadgeRun(_, _, _, _, _, _, _)
BadgeRun(badges, i, badgeX, badgeY, calls, startX, limit) ==
  IF i > Len(badges) THEN calls
  ELSE LET badgeText == <<"(bullet)", " ">> \o badges[i]
           width == measureText(badgeText)
           x == IF badgeX + width > limit THEN startX ELSE badgeX
       IN BadgeRun(badges, i + 1, x + width + 10, badgeY,
                   Append(calls, FillText("badge", badgeText, x, badgeY)), startX, limit)

ProfileDrawText(o) ==
  LET x == o.padding.left + AvatarSize("Profile", o) + 30
      heading ==
        IF o.layout = "vertical"
          THEN << Set("font", [bold |-> TRUE, size |-> o.fontSize.username]),
                  Set("fillStyle", <<o.textColor>>),
                  FillText("username", <<o.username>>, x, o.padding.top + o.fontSize.username),
                  Set("font", [bold |-> FALSE, size |-> o.fontSize.username - 8]),
                  Set("fillStyle", <<"#AAAAAA">>),
                  FillText("discriminator", <<o.discriminator>>, x,
                           o.padding.top + o.fontSize.username + 10 + (o.fontSize.username - 8)) >>
          ELSE <<>>
      y1 == IF o.layout = "vertical"
              THEN o.padding.top + o.fontSize.username + 10 + o.fontSize.username + 20
              ELSE o.padding.top
      maxWidth == CanvasWidth("Profile") - (o.padding.left + AvatarSize("Profile", o) + 60)
      wrapped == WrapBio(split(o.bio), 1, <<>>, y1, <<>>, maxWidth, x, o.fontSize.bio)
      bio ==
        IF o.bio # <<>>
          THEN << Set("font", [bold |-> FALSE, size |-> o.fontSize.bio]),
                  Set("fillStyle", <<o.textColor>>) >> \o wrapped.calls \o
               << FillText("bio", wrapped.line, x, wrapped.currentY + o.fontSize.bio) >>
          ELSE <<>>
      y2 == IF o.bio # <<>> THEN wrapped.currentY + o.fontSize.bio + 20 ELSE y1
      badges ==
        IF Len(o.badges) > 0
          THEN << Set("font", [bold |-> FALSE, size |-> o.fontSize.badges]),
                  Set("fillStyle", <<o.accentColor>>) >> \o
               BadgeRun(o.badges, 1, x, y2 + o.fontSize.badges, <<>>, x,
                        CanvasWidth("Profile") - o.padding.right)
          ELSE <<>>
  IN heading \o bio \o badges

WelcomeDrawText(o) ==
  LET centerX == Divide(CanvasWidth("Welcome"), 2)
      startY == o.padding.top + 100
  IN << Set("font", [bold |-> TRUE, size |-> o.fontSize.title]),
        Set("fillStyle", <<o.textColor>>),
        Set("textAlign", "center"),
        FillText("username", <<o.username>>, centerX, startY) >> \o
     (IF o.discriminator # ""
        THEN << Set("font", [bold |-> FALSE, size |-> o.fontSize.subtitle]),
                Set("fillStyle", <<"#AAAAAA">>),
                FillText("discriminator", <<o.discriminator>>, centerX,
                         startY + o.fontSize.subtitle + 5) >>
        ELSE <<>>) \o
     << Set("font", [bold |-> TRUE, size |-> o.fontSize.subtitle]),
        Set("fillStyle", <<o.textColor>>),
        FillText("serverName", <<"Welcome to ", o.serverName, "!">>, centerX,
                 startY + o.fontSize.subtitle + (IF o.discriminator # "" THEN 40 ELSE 60)) >> \o
     (IF o.memberCount > 0
        THEN << Set("font", [bold |-> FALSE, size |-> o.fontSize.memberCount]),
                Set("fillStyle", <<"#AAAAAA">>),
                FillText("memberCount", <<"Member #", ToString(o.memberCount)>>, centerX,
                         startY + o.fontSize.subtitle +
                           (IF o.discriminator # "" THEN 80 ELSE 100) +
                           o.fontSize.memberCount + 10) >>
        ELSE <<>>) \o
     << Set("textAlign", "left") >>

drawRankInfo(o) ==
  LET x == o.padding.left + 80 + 30
      y1 == o.padding.top + o.fontSize.username + 15
      y2 == y1 + o.fontSize.username + 25
      y3 == y2 + o.fontSize.rank + 15
  IN << Set("font", [bold |-> TRUE, size |-> o.fontSize.username]),
        Set("fillStyle", <<o.textColor>>),
        FillText("username", <<o.username>>, x, o.padding.top + o.fontSize.username),
        Set("font", [bold |-> FALSE, size |-> o.fontSize.username - 8]),
        Set("fillStyle", <<"#AAAAAA">>),
        FillText("discriminator", <<o.discriminator>>, x, y1 + (o.fontSize.username - 8)),
        Set("font", [bold |-> TRUE, size |-> o.fontSize.rank]),
        Set("fillStyle", <<o.rankColor>>),
        FillText("rank", <<"Rank #", ToString(o.rank)>>, x, y2 + o.fontSize.rank),
        Set("font", [bold |-> FALSE, size |-> o.fontSize.level]),
        Set("fillStyle", <<o.levelColor>>),
        FillText("level", <<"Level ", ToString(o.level)>>, x, y3 + o.fontSize.level) >>

\* RankCard.drawXPInfo: the track is progressBarWidth wide, the fill
\* progressBarWidth * progress / 100 (thousands separators are not modelled).
progressBarWidth(o) == CanvasWidth("Rank") - (o.padding.left + 80 + 60) - o.padding.right
progressWidth(o) ==
  [n |-> progressBarWidth(o) * o.progress.n, d |-> o.progress.d * 100]

drawXPInfo(o) ==
  LET x == o.padding.left + 80 + 30
      progressBarY == CanvasHeight("Rank") - o.padding.bottom - 40
  IN << Set("font", [bold |-> FALSE, size |-> o.fontSize.xp]),
        Set("fillStyle", <<o.textColor>>),
        FillText("xp", <<ToString(o.currentXP), " / ", ToString(o.nextLevelXP), " XP">>, x,
                 CanvasHeight("Rank") - o.padding.bottom - 20),
        Set("fillStyle", <<o.progressBarBackgroundColor>>),
        FillRect(x, progressBarY, progressBarWidth(o), 12) >> \o
     (IF o.showProgress
        THEN << Set("fillStyle", <<o.progressBarColor>>),
                FillRect(x, progressBarY, progressWidth(o), 12) >>
        ELSE <<>>) \o
     << Set("strokeStyle", o.accentColor),
        Set("lineWidth", 1),
        StrokeRect(x, progressBarY, progressBarWidth(o), 12) >>

drawAccentBar(o) ==
  << Set("fillStyle", <<o.accentColor>>),
     FillRect(o.padding.left, CanvasHeight("Welcome") - o.padding.bottom - 5,
              CanvasWidth("Welcome") - (o.padding.left + o.padding.right), 5) >>

\* toBuffer: the rounded rectangle that is made the clip before encoding.
RoundedCorners(k, o) ==
  LET w == CanvasWidth(k)
      h == CanvasHeight(k)
      radius == o.borderRadius
  IN << Call("beginPath"),
        PathTo("moveTo", <<radius, 0>>),
        PathTo("lineTo", <<w - radius, 0>>),
        PathTo("quadraticCurveTo", <<w, 0, w, radius>>),
        PathTo("lineTo", <<w, h - radius>>),
        PathTo("quadraticCurveTo", <<w, h, w - radius, h>>),
        PathTo("lineTo", <<radius, h>>),
        PathTo("quadraticCurveTo", <<0, h, 0, h - radius>>),
        PathTo("lineTo", <<0, radius>>),
        PathTo("quadraticCurveTo", <<0, 0, radius, 0>>),
        Call("closePath"),
        Call("clip") >>

\* ------------------------------------------------------- constructor calls
NotStarted == [c \in CardIds |-> "none"]
Nothing == [c \in CardIds |-> <<>>]

\* this.options and the calculateProgress calls of new k(o).
Normalised(k, o) ==
  CASE k = "Profile" -> ProfileCard(o)
    [] k = "Welcome" -> WelcomeCard(o)
    [] k = "Rank" -> RankCard(o)
Calculations(k, o) == IF k = "Rank" THEN RankCardCalculates(o) ELSE <<>>

\* new ProfileCard(o) / new WelcomeCard(o) / new RankCard(o)
Construct(c, k, o) ==
  /\ kind[c] = "none"
  /\ kind' = [kind EXCEPT ![c] = k]
  /\ input' = [input EXCEPT ![c] = o]
  /\ options' = [options EXCEPT ![c] = Normalised(k, o)]
  /\ calculated' = [calculated EXCEPT ![c] = Calculations(k, o)]
  /\ pc' = [pc EXCEPT ![c] = "idle"]
  /\ ctx' = [ctx EXCEPT ![c] = NewContext]
  /\ UNCHANGED <<trace, result>>

NewProfileCard ==
  /\ kind[1] = "none"
  /\ \E S \in SuppliedFields("Profile") : \E pick \in Choices("Profile", S) :
       Construct(1, "Profile", Options("Profile", S, pick, Required("Profile", LocalAvatar, 0, 0)))

NewWelcomeCard ==
  /\ kind[1] = "none"
  /\ \E S \in SuppliedFields("Welcome") : \E pick \in Choices("Welcome", S) :
       Construct(1, "Welcome", Options("Welcome", S, pick, Required("Welcome", LocalAvatar, 0, 0)))

NewRankCard ==
  /\ kind[1] = "none"
  /\ \E S \in SuppliedFields("Rank") : \E pick \in Choices("Rank", S) :
       \E currentXP \in XPValues, nextLevelXP \in XPValues :
         Construct(1, "Rank",
                   Options("Rank", S, pick, Required("Rank", LocalAvatar, currentXP, nextLevelXP)))

InitOptions ==
  /\ kind = NotStarted
  /\ input = Nothing
  /\ options = Nothing
  /\ calculated = Nothing
  /\ pc = NotStarted
  /\ ctx = Nothing
  /\ trace = Nothing
  /\ result = Nothing

NextOptions == NewProfileCard \/ NewWelcomeCard \/ NewRankCard

\* One constructor call on arbitrary options.
SpecOptions == InitOptions /\ [][NextOptions]_vars

\* --------------------------------------------------------------- toBuffer
Kinds == {"Profile", "Welcome", "Rank"}

\* The options of the cards that are rendered.
Omitted(k, avatarUrl) == Options(k, {}, <<>>, Required(k, avatarUrl, 50, 100))
Bios == UNION {[1..n -> {"a", "b", " "}] : n \in 1..MaxBioLen}

RenderArgs(k) ==
  CASE k = "Profile" ->
         {[Omitted(k, url) EXCEPT !.backgroundImage = bg, !.layout = layout, !.badges = badges] :
            url \in {LocalAvatar, RemoteAvatar},
            bg \in {Undefined, Given(""), Given("./bg.png")},
            layout \in {Undefined, Given("horizontal")},
            badges \in {Undefined, Given(<< <<"d", "e", "v">>, <<"m", "o", "d">> >>)}}
         \cup
         {[Omitted(k, LocalAvatar) EXCEPT
             !.bio = Given(bio),
             !.layout = IF horizontal THEN Given("horizontal") ELSE Undefined,
             !.padding = Given([top |-> Undefined, right |-> Undefined, bottom |-> Undefined,
                                left |-> Given((IF horizontal THEN 640 ELSE 620) - width)])] :
            bio \in Bios, horizontal \in BOOLEAN, width \in 1..MaxLineWidth}
         \cup
         {[Omitted(k, LocalAvatar) EXCEPT
             !.badges = Given(<< <<"d", "e", "v">>, <<"m", "o", "d">>, <<"v", "i", "p">> >>),
             !.padding = Given([top |-> Undefined, right |-> Given(right),
                                bottom |-> Undefined, left |-> Undefined])] :
            right \in {595, 610}}
    [] k = "Welcome" ->
         {[Omitted(k, url) EXCEPT !.memberCount = members] :
            url \in {LocalAvatar, RemoteAvatar}, members \in {Undefined, Given(25)}}
    [] k = "Rank" ->
         {[Omitted(k, url) EXCEPT
             !.backgroundImage = bg, !.progress = progress, !.showProgress = show] :
            url \in {LocalAvatar, RemoteAvatar},
            bg \in {Undefined, Given(""), Given("./bg.png")},
            progress \in {Undefined, Given(Num(150))},
            show \in {Undefined, Given(FALSE)}}

\* What the outside world answers: an HTTP response, or an error.
Responses ==
  { [status |-> 200, statusText |-> "OK"],
    [status |-> 404, statusText |-> "Not Found"],
    [status |-> 404, statusText |-> ""],
    [status |-> 500, statusText |-> "Internal Server Error"] }
ok(response) == response.status >= 200 /\ response.status < 300
NoResponse == [status |-> 0, statusText |-> ""]
NetworkError(url) == [message |-> <<"request to ">> \o url \o <<" failed">>]
BodyError == [message |-> <<"Premature close">>]
ImageError == [message |-> <<"Unsupported image type">>]

\* loadAvatar: local when the reference starts with ./ or / or has no ://
IsLocal(avatarUrl) ==
  startsWith(avatarUrl, "./") \/ startsWith(avatarUrl, "/") \/ ~includes(avatarUrl, "://")

\* loadAvatar: the error thrown for a response that is not ok, and the catch block.
FetchFailedBare(response) == [message |-> <<"Failed to fetch image">>]
FetchFailed(response) == [message |-> <<"Failed to fetch image: ", response.statusText>>]
Wrapped(avatarUrl, error) ==
  [message |-> <<"Failed to load external avatar: ">> \o avatarUrl \o <<". Error: ">> \o
               error.message]

\* The entries of the trace for an awaited load: its start and how it settled.
Load(stage, what, step) == [event |-> "load", stage |-> stage, what |-> what, step |-> step]
Settled(stage, what, step, success, response) ==
  [ event |-> "settled", stage |-> stage, what |-> what, step |-> step, ok |-> success,
    response |-> response ]

\* The stage whose method awaits loadAvatar.
AvatarStage(k) == IF k = "Welcome" THEN "background" ELSE "avatar"

\* loadAvatar up to its first await.
LoadAvatar(k, o) ==
  IF IsLocal(o.avatarUrl)
    THEN [event |-> Load(AvatarStage(k), "avatar", "image"), next |-> "image"]
    ELSE [event |-> Load(AvatarStage(k), "avatar", "fetch"), next |-> "fetch"]

\* toBuffer: where it continues once the awaited method of a stage has returned.
AfterStageTextFirst(k, stage) ==
  CASE stage = "background" -> "drawText"
    [] stage = "text" -> "drawAvatar"
    [] stage = "avatar" -> IF k = "Profile" THEN "roundCorners" ELSE "decorate"
    [] stage = "decoration" -> "roundCorners"

AfterStage(k, stage) ==
  CASE stage = "background" -> "drawAvatar"
    [] stage = "avatar" -> "drawText"
    [] stage = "text" -> IF k = "Profile" THEN "roundCorners" ELSE "decorate"
    [] stage = "decoration" -> "roundCorners"

\* Card c runs on: the entries `before`, then the calls, then the entries `after`.
ProceedOnSharedContext(c, stage, before, calls, after, next) ==
  LET r == RunCalls(ctx[1], trace[c] \o before, stage, calls)
  IN /\ ctx' = [d \in CardIds |-> r.ctx]
     /\ trace' = [trace EXCEPT ![c] = r.trace \o after]
     /\ pc' = [pc EXCEPT ![c] = next]
     /\ UNCHANGED <<kind, input, options, calculated, result>>

Proceed(c, stage, before, calls, after, next) ==
  LET r == RunCalls(ctx[c], trace[c] \o before, stage, calls)
  IN /\ ctx' = [ctx EXCEPT ![c] = r.ctx]
     /\ trace' = [trace EXCEPT ![c] = r.trace \o after]
     /\ pc' = [pc EXCEPT ![c] = next]
     /\ UNCHANGED <<kind, input, options, calculated, result>>

\* The promise returned by toBuffer rejects with error.
Reject(c, event, error) ==
  /\ trace' = [trace EXCEPT ![c] = Append(@, event)]
  /\ pc' = [pc EXCEPT ![c] = "rejected"]
  /\ result' = [result EXCEPT ![c] = [state |-> "rejected", error |-> error]]
  /\ UNCHANGED <<kind, input, options, calculated, ctx>>

\* `await this.loadAvatar()` rejects inside drawAvatar (drawBackground for WelcomeCard).
AvatarFailedIgnored(c, event, error) ==
  Proceed(c, AvatarStage(kind[c]), <<event>>, <<>>, <<>>, AfterStage(kind[c], AvatarStage(kind[c])))
AvatarFailed(c, event, error) == Reject(c, event, error)

\* `await this.loadBackground()` rejects inside drawBackground.
BackgroundFailedFallback(c, event, error) ==
  Proceed(c, "background", <<event>>, GradientOverlay(kind[c]), <<>>,
          AfterStage(kind[c], "background"))
BackgroundFailed(c, event, error) == Reject(c, event, error)

\* drawBackground, on the surface as it is, up to its first await.
StartDrawBackground(c) ==
  LET k == kind[c]
      o == options[c]
  IN IF k = "Welcome"
        THEN Proceed(c, "background", <<>>, <<>>, <<LoadAvatar(k, o).event>>,
                     LoadAvatar(k, o).next)
        ELSE IF o.backgroundImage # ""
          THEN Proceed(c, "background", <<>>, BackgroundFill(k, o),
                       <<Load("background", "background", "image")>>, "loadBackground")
          ELSE Proceed(c, "background", <<>>, BackgroundFill(k, o) \o GradientOverlay(k),
                       <<>>, AfterStage(k, "background"))

\* toBuffer() is called on a generator that has not been used.
ToBuffer(c) ==
  /\ pc[c] = "idle"
  /\ StartDrawBackground(c)

\* The Image of loadBackground fires onload or onerror.
LoadBackgroundSettles(c) ==
  /\ pc[c] = "loadBackground"
  /\ \/ Proceed(c, "background",
                <<Settled("background", "background", "image", TRUE, NoResponse)>>,
                BackgroundImage(kind[c]) \o GradientOverlay(kind[c]), <<>>,
                AfterStage(kind[c], "background"))
     \/ BackgroundFailed(c, Settled("background", "background", "image", FALSE, NoResponse),
                         ImageError)

\* drawAvatar runs up to `await this.loadAvatar()`; WelcomeCard.drawAvatar is empty.
DrawAvatar(c) ==
  /\ pc[c] = "drawAvatar"
  /\ LET k == kind[c]
         o == options[c]
     IN IF k = "Welcome"
          THEN Proceed(c, "avatar", <<>>, <<>>, <<>>, AfterStage(k, "avatar"))
          ELSE Proceed(c, "avatar", <<>>, AvatarFrame(k, o), <<LoadAvatar(k, o).event>>,
                       LoadAvatar(k, o).next)

\* fetch(avatarUrl) settles: a response, or a network error.
FetchSettles(c) ==
  /\ pc[c] = "fetch"
  /\ LET k == kind[c]
         url == options[c].avatarUrl
     IN \/ \E response \in Responses :
             IF ok(response)
               THEN Proceed(c, AvatarStage(k),
                            <<Settled(AvatarStage(k), "avatar", "fetch", TRUE, response)>>, <<>>,
                            <<Load(AvatarStage(k), "avatar", "arrayBuffer")>>, "arrayBuffer")
               ELSE AvatarFailed(c, Settled(AvatarStage(k), "avatar", "fetch", FALSE, response),
                                 Wrapped(url, FetchFailed(response)))
        \/ AvatarFailed(c, Settled(AvatarStage(k), "avatar", "fetch", FALSE, NoResponse),
                        Wrapped(url, NetworkError(url)))

\* response.arrayBuffer() settles; on success the Image is given the buffer.
ArrayBufferSettles(c) ==
  /\ pc[c] = "arrayBuffer"
  /\ LET k == kind[c]
     IN \/ Proceed(c, AvatarStage(k),
                   <<Settled(AvatarStage(k), "avatar", "arrayBuffer", TRUE, NoResponse)>>, <<>>,
                   <<Load(AvatarStage(k), "avatar", "image")>>, "image")
        \/ AvatarFailed(c, Settled(AvatarStage(k), "avatar", "arrayBuffer", FALSE, NoResponse),
                        Wrapped(options[c].avatarUrl, BodyError))

\* The avatar Image fires onload or onerror.  The promise it settles is returned,
\* not awaited, by loadAvatar, so its rejection does not pass through the catch block.
ImageSettles(c) ==
  /\ pc[c] = "image"
  /\ LET k == kind[c]
         o == options[c]
         loaded == Settled(AvatarStage(k), "avatar", "image", TRUE, NoResponse)
     IN \/ IF k = "Welcome"
             THEN Proceed(c, "background", <<loaded>>, BlurredAvatar(k) \o GradientOverlay(k),
                          <<>>, AfterStage(k, "background"))
             ELSE Proceed(c, "avatar", <<loaded>>, AvatarImage(k, o), <<>>,
                          AfterStage(k, "avatar"))
        \/ AvatarFailed(c, Settled(AvatarStage(k), "avatar", "image", FALSE, NoResponse),
                        ImageError)

\* drawText (drawRankInfo for RankCard).
DrawText(c) ==
  /\ pc[c] = "drawText"
  /\ LET k == kind[c]
         o == options[c]
     IN Proceed(c, "text", <<>>,
                CASE k = "Profile" -> ProfileDrawText(o)
                  [] k = "Welcome" -> WelcomeDrawText(o)
                  [] k = "Rank" -> drawRankInfo(o),
                <<>>, AfterStage(k, "text"))

\* drawXPInfo of RankCard, drawAccentBar of WelcomeCard.
Decorate(c) ==
  /\ pc[c] = "decorate"
  /\ Proceed(c, "decoration", <<>>,
             IF kind[c] = "Rank" THEN drawXPInfo(options[c]) ELSE drawAccentBar(options[c]),
             <<>>, AfterStage(kind[c], "decoration"))

\* The rest of toBuffer: the rounded clip, then canvas.encode('png').
RoundCornersAndEncode(c) ==
  /\ pc[c] = "roundCorners"
  /\ Proceed(c, "corner-mask", <<>>, RoundedCorners(kind[c], options[c]),
             <<[event |-> "encode", stage |-> "encode", format |-> "png"]>>, "encode")

\* What the surface shows: the painting calls made on it.
Painted(tr) == SelectSeq(tr, LAMBDA e : e.event = "call" /\ e.call.call \in Painting)

\* canvas.encode resolves with the bytes of the surface.
EncodeSettles(c) ==
  /\ pc[c] = "encode"
  /\ pc' = [pc EXCEPT ![c] = "done"]
  /\ result' = [result EXCEPT ![c] =
       [ state |-> "fulfilled",
         bytes |-> [ format |-> "png", width |-> CanvasWidth(kind[c]),
                     height |-> CanvasHeight(kind[c]), image |-> Painted(trace[c]) ] ]]
  /\ UNCHANGED <<kind, input, options, calculated, ctx, trace>>

\* One generator has been constructed; its toBuffer is called once.
Init ==
  \E k \in Kinds : \E o \in RenderArgs(k) :
    /\ kind = [NotStarted EXCEPT ![1] = k]
    /\ input = [Nothing EXCEPT ![1] = o]
    /\ options = [Nothing EXCEPT ![1] = Normalised(k, o)]
    /\ calculated = [Nothing EXCEPT ![1] = Calculations(k, o)]
    /\ pc = [NotStarted EXCEPT ![1] = "idle"]
    /\ ctx = [Nothing EXCEPT ![1] = NewContext]
    /\ trace = Nothing
    /\ result = Nothing

Next ==
  \E c \in CardIds :
    \/ ToBuffer(c)
    \/ LoadBackgroundSettles(c)
    \/ DrawAvatar(c)
    \/ FetchSettles(c)
    \/ ArrayBufferSettles(c)
    \/ ImageSettles(c)
    \/ DrawText(c)
    \/ Decorate(c)
    \/ RoundCornersAndEncode(c)
    \/ EncodeSettles(c)

Spec == Init /\ [][Next]_vars

\* ------------------------------------------------ toBuffer called more than once
\* The encodes of a trace: one for every toBuffer call that came to canvas.encode.
Encodes(tr) == Cardinality({i \in 1..Len(tr) : tr[i].event = "encode"})

\* toBuffer() is called again on a generator whose toBuffer has resolved: the
\* canvas and the context are the ones the constructor created.
ToBufferAgain(c) ==
  /\ pc[c] = "done"
  /\ Encodes(trace[c]) < MaxRenders
  /\ StartDrawBackground(c)

ReuseArgs(k) == {o \in RenderArgs(k) : k = "Profile" => o.bio = Undefined}

InitReuse ==
  \E k \in Kinds : \E o \in ReuseArgs(k) :
    /\ kind = [NotStarted EXCEPT ![1] = k]
    /\ input = [Nothing EXCEPT ![1] = o]
    /\ options = [Nothing EXCEPT ![1] = Normalised(k, o)]
    /\ calculated = [Nothing EXCEPT ![1] = Calculations(k, o)]
    /\ pc = [NotStarted EXCEPT ![1] = "idle"]
    /\ ctx = [Nothing EXCEPT ![1] = NewContext]
    /\ trace = Nothing
    /\ result = Nothing

NextReuse == Next \/ \E c \in CardIds : ToBufferAgain(c)

SpecReuse == InitReuse /\ [][NextReuse]_vars

\* ------------------------------------------- several generators at the same time
\* Two generators have been constructed; the toBuffer of each is called once, and
\* their awaits settle in any order.
ConcurrentArgs(k) ==
  CASE k = "Profile" ->
         { [Omitted(k, RemoteAvatar) EXCEPT !.backgroundImage = Given("./bg.png")],
           [Omitted(k, LocalAvatar) EXCEPT !.layout = Given("horizontal")] }
    [] k = "Welcome" -> { [Omitted(k, RemoteAvatar) EXCEPT !.memberCount = Given(25)] }
    [] k = "Rank" -> { [Omitted(k, LocalAvatar) EXCEPT !.backgroundImage = Given("./bg.png")] }

ConcurrentCards == UNION {{[kind |-> k, input |-> o] : o \in ConcurrentArgs(k)} : k \in Kinds}

InitConcurrent ==
  \E new \in [CardIds -> ConcurrentCards] :
    /\ kind = [c \in CardIds |-> new[c].kind]
    /\ input = [c \in CardIds |-> new[c].input]
    /\ options = [c \in CardIds |-> Normalised(new[c].kind, new[c].input)]
    /\ calculated = [c \in CardIds |-> Calculations(new[c].kind, new[c].input)]
    /\ pc = [c \in CardIds |-> "idle"]
    /\ ctx = [c \in CardIds |-> NewContext]
    /\ trace = Nothing
    /\ result = Nothing

SpecConcurrent == InitConcurrent /\ [][Next]_vars

\* ------------------------------------------------- claims on the constructors
Constructed(c, k) == kind[c] = k

\* The defaults the documentation gives for the fields with a fixed default.
DocumentedDefault(k, f) ==
  CASE f = "discriminator" -> "#0000"
    [] f = "status" -> "online"
    [] f = "bio" -> <<>>
    [] f = "badges" -> <<>>
    [] f = "backgroundColor" -> "#2C2F33"
    [] f = "textColor" -> "#FFFFFF"
    [] f = "accentColor" -> "#7289DA"
    [] f = "backgroundImage" -> ""
    [] f = "layout" -> "vertical"
    [] f = "memberCount" -> 0
    [] f = "rankColor" -> "#FFD700"
    [] f = "levelColor" -> "#7289DA"
    [] f = "progressBarColor" -> "#43B581"
    [] f = "progressBarBackgroundColor" -> "#23272A"
    [] f = "showProgress" -> TRUE
    [] f = "borderRadius" -> IF k = "Welcome" THEN 15 ELSE 10
    [] f = "padding" -> IF k = "Welcome" THEN 60 ELSE 30
    [] f = "fontSize.username" -> 32
    [] f = "fontSize.bio" -> 16
    [] f = "fontSize.badges" -> 14
    [] f = "fontSize.title" -> 60
    [] f = "fontSize.subtitle" -> 28
    [] f = "fontSize.memberCount" -> 20
    [] f = "fontSize.rank" -> 24
    [] f = "fontSize.level" -> 20
    [] f = "fontSize.xp" -> 16

NestedFields == {"fontSize", "padding"}
ComputedDefault == {"progress", "statusColor"}
NamesOf(fields) == {fields[i] : i \in 1..Len(fields)}

\* C1 (as claimed): after constructing a RankCard with any options, the normalised
\* progress is a number within [0, 100].
C1_ProgressWithinRange ==
  \A c \in CardIds :
    Constructed(c, "Rank") =>
      LET p == options[c].progress
      IN p.d > 0 /\ 0 <= p.n /\ p.n <= 100 * p.d

\* C2: a RankCard constructed without progress and with nextLevelXP > 0 has
\* progress = clamp(currentXP / nextLevelXP * 100, 0, 100): 0 when currentXP <= 0,
\* 100 when currentXP >= nextLevelXP, and the exact quotient in between; so
\* (50, 100) gives 50, (150, 100) gives 100 and currentXP = 0 gives 0.
C2_ProgressIsClampedRatio ==
  \A c \in CardIds :
    (Constructed(c, "Rank") /\ input[c].progress = Undefined /\ input[c].nextLevelXP > 0) =>
      LET p == options[c].progress
          x == input[c].currentXP
          n == input[c].nextLevelXP
      IN /\ p.d > 0
         /\ (x <= 0 => p.n = 0)
         /\ (x >= n => p.n = 100 * p.d)
         /\ (0 < x /\ x < n => p.n * n = 100 * x * p.d)
         /\ (x = 50 /\ n = 100 => p.n = 50 * p.d)
         /\ (x = 150 /\ n = 100 => p.n = 100 * p.d)

C2_Witness ==
  /\ Constructed(1, "Rank")
  /\ input[1].progress = Undefined
  /\ input[1].currentXP = 150 /\ input[1].nextLevelXP = 100
  /\ options[1].progress.n = 100 * options[1].progress.d

\* C3 (as claimed): when the caller supplies progress, 0 included, the constructor
\* does not evaluate calculateProgress and the normalised progress is the
\* supplied value.
C3_SuppliedProgressSkipsCalculation ==
  \A c \in CardIds :
    (Constructed(c, "Rank") /\ input[c].progress # Undefined) =>
      /\ calculated[c] = <<>>
      /\ options[c].progress = input[c].progress[1]

\* C4 (as claimed): every optional field, nested ones included, normalises to the
\* caller's value when supplied (0 and "" included) and to the documented default
\* when omitted.
C4_SuppliedValueElseDefault ==
  \A c \in CardIds :
    kind[c] # "none" =>
      LET k == kind[c]
          i == input[c]
          o == options[c]
      IN /\ \A f \in OptionalFields(k) \ NestedFields :
              /\ i[f] # Undefined => o[f] = i[f][1]
              /\ (i[f] = Undefined /\ f \notin ComputedDefault) => o[f] = DocumentedDefault(k, f)
         /\ \A g \in NamesOf(FontSizeFields(k)) :
              /\ Member(i.fontSize, g) # Undefined => o.fontSize[g] = Member(i.fontSize, g)[1]
              /\ Member(i.fontSize, g) = Undefined =>
                   o.fontSize[g] = DocumentedDefault(k, "fontSize." \o g)
         /\ \A g \in NamesOf(PaddingFields) :
              /\ Member(i.padding, g) # Undefined => o.padding[g] = Member(i.padding, g)[1]
              /\ Member(i.padding, g) = Undefined => o.padding[g] = DocumentedDefault(k, "padding")

\* C5: getStatusColor maps online, idle, dnd and offline to their swatches and every
\* other string to #747F8D, and a ProfileCard constructed without statusColor has
\* statusColor = that mapping of its normalised status.
C5_StatusColorFollowsStatus ==
  \A c \in CardIds :
    (Constructed(c, "Profile") /\ input[c].statusColor = Undefined) =>
      LET s == options[c].status
      IN /\ s = "online" => options[c].statusColor = "#43B581"
         /\ s = "idle" => options[c].statusColor = "#FAA61A"
         /\ s = "dnd" => options[c].statusColor = "#F04747"
         /\ s \notin {"online", "idle", "dnd"} => options[c].statusColor = "#747F8D"

C5_Witness ==
  /\ Constructed(1, "Profile")
  /\ input[1].statusColor = Undefined
  /\ input[1].status = Given("busy")
  /\ options[1].status = "busy"
  /\ options[1].statusColor = "#747F8D"

\* ----------------------------------------------------- claims on toBuffer
Entries(c) == {trace[c][i] : i \in 1..Len(trace[c])}
Rendering(c) == kind[c] # "none" /\ pc[c] # "idle"

\* A load for `what` of card c settled as a failure / with HTTP status `status`.
FailedAt(c, i, what) ==
  trace[c][i].event = "settled" /\ trace[c][i].what = what /\ ~trace[c][i].ok
Answered(c, i, status) ==
  /\ trace[c][i].event = "settled"
  /\ trace[c][i].step = "fetch"
  /\ trace[c][i].response.status = status

\* C6 (as claimed): when the avatar is a remote URL and the GET returns 404,
\* toBuffer rejects with an error whose message references "404".
C6_NotFoundMessageNames404 ==
  \A c \in CardIds : \A i \in 1..Len(trace[c]) :
    Answered(c, i, 404) =>
      /\ pc[c] = "rejected"
      /\ result[c].state = "rejected"
      /\ includes(result[c].error.message, "404")

\* C6 (amended): when the avatar is a remote URL and the GET returns 404, toBuffer
\* rejects with an error whose message is "Failed to load external avatar: <the
\* reference>. Error: Failed to fetch image: <the response's status text>".
C6_NotFoundMessageNamesStatusText ==
  \A c \in CardIds : \A i \in 1..Len(trace[c]) :
    Answered(c, i, 404) =>
      /\ ~IsLocal(options[c].avatarUrl)
      /\ pc[c] = "rejected"
      /\ result[c].state = "rejected"
      /\ result[c].error.message =
           <<"Failed to load external avatar: ">> \o options[c].avatarUrl \o
           <<". Error: ", "Failed to fetch image: ", trace[c][i].response.statusText>>

C6_Witness ==
  /\ kind[1] = "Welcome"
  /\ pc[1] = "rejected"
  /\ \E i \in 1..Len(trace[1]) :
       Answered(1, i, 404) /\ trace[1][i].response.statusText = "Not Found"
  /\ includes(result[1].error.message, "Not Found")
  /\ ~includes(result[1].error.message, "404")

LaterStages(k) ==
  IF k = "Welcome" THEN {"avatar", "text", "decoration", "corner-mask", "encode"}
  ELSE {"text", "decoration", "corner-mask", "encode"}

\* C7: if loading the avatar fails at any step (fetch, status, body or decode, local
\* or remote), toBuffer rejects, nothing runs after the failure, no later stage has
\* run, canvas.encode is not called and no bytes are returned.
C7_AvatarFailureAbortsRender ==
  \A c \in CardIds : \A i \in 1..Len(trace[c]) :
    FailedAt(c, i, "avatar") =>
      /\ pc[c] = "rejected"
      /\ result[c] # <<>> /\ result[c].state = "rejected"
      /\ i = Len(trace[c])
      /\ \A e \in Entries(c) : e.stage \notin LaterStages(kind[c]) /\ e.event # "encode"

C7_Witness ==
  /\ kind[1] = "Rank"
  /\ ~IsLocal(options[1].avatarUrl)
  /\ pc[1] = "rejected"
  /\ FailedAt(1, Len(trace[1]), "avatar")
  /\ trace[1][Len(trace[1])].step = "image"

\* C8: for Profile and Rank cards an absent (omitted or empty) backgroundImage
\* causes no load and no error, and the render goes on over the solid background
\* colour; a supplied backgroundImage that fails to load makes toBuffer reject
\* with nothing after the failure and no encode.
C8_BackgroundImageOptional ==
  \A c \in CardIds :
    (kind[c] \in {"Profile", "Rank"} /\ Rendering(c)) =>
      /\ options[c].backgroundImage = "" =>
           /\ \A e \in Entries(c) : e.event \in {"load", "settled"} => e.what # "background"
           /\ \A e \in Entries(c) : (e.event = "call" /\ e.call.call = "drawImage") =>
                 e.call.image # "backgroundImage"
           /\ pc[c] \notin {"loadBackground"}
           /\ trace[c][2].call.call = "fillRect"
           /\ trace[c][2].fillStyle = <<options[c].backgroundColor>>
           /\ pc[c] = "rejected" => FailedAt(c, Len(trace[c]), "avatar")
      /\ \A i \in 1..Len(trace[c]) :
           FailedAt(c, i, "background") =>
             /\ options[c].backgroundImage # ""
             /\ pc[c] = "rejected"
             /\ result[c] # <<>> /\ result[c].state = "rejected"
             /\ i = Len(trace[c])
             /\ \A e \in Entries(c) : e.event # "encode" /\ e.stage = "background"

C8_Witness ==
  /\ kind[1] = "Profile"
  /\ input[1].backgroundImage = Given("./bg.png")
  /\ pc[1] = "rejected"
  /\ FailedAt(1, Len(trace[1]), "background")

StageOrder ==
  [ s \in {"background", "avatar", "text", "decoration", "corner-mask", "encode"} |->
      CASE s = "background" -> 1 [] s = "avatar" -> 2 [] s = "text" -> 3
        [] s = "decoration" -> 4 [] s = "corner-mask" -> 5 [] s = "encode" -> 6 ]

\* C9: in every toBuffer the stages run one at a time in the order background,
\* avatar, text, decoration, corner-mask, encode: the trace never returns to an
\* earlier stage, nothing is done between the start of an awaited load and its
\* settling, and the encode is the last operation on the surface.
C9_StagesInOrder ==
  \A c \in CardIds : \A i \in 1..Len(trace[c]) :
    /\ i > 1 => StageOrder[trace[c][i - 1].stage] <= StageOrder[trace[c][i].stage]
    /\ (trace[c][i].event = "load" /\ i < Len(trace[c])) =>
         /\ trace[c][i + 1].event = "settled"
         /\ trace[c][i + 1].what = trace[c][i].what
         /\ trace[c][i + 1].step = trace[c][i].step
    /\ trace[c][i].event = "encode" => i = Len(trace[c])
    /\ pc[c] \in {"encode", "done"} => trace[c][Len(trace[c])].event = "encode"

C9_Witness ==
  /\ kind[1] = "Rank"
  /\ pc[1] = "done"
  /\ \A s \in DOMAIN StageOrder : \E e \in Entries(1) : e.stage = s
  /\ \E e \in Entries(1) : e.event = "settled" /\ e.what = "background"
  /\ \E e \in Entries(1) : e.event = "settled" /\ e.step = "arrayBuffer"

\* The bio lines a ProfileCard has drawn, in order, and the words they hold (every
\* line ends with the space the wrap appends after each word).
RECURSIVE BioLines(_)
BioLines(tr) ==
  IF tr = <<>> THEN <<>>
  ELSE IF Head(tr).event = "call" /\ Head(tr).call.call = "fillText" /\ Head(tr).call.part = "bio"
         THEN <<Head(tr).call.text>> \o BioLines(Tail(tr))
         ELSE BioLines(Tail(tr))

WordsOfLine(line) ==
  IF line # <<>> /\ line[Len(line)] = " " THEN split(SubSeq(line, 1, Len(line) - 1))
  ELSE split(line)

RECURSIVE WordsOfLines(_)
WordsOfLines(lines) ==
  IF lines = <<>> THEN <<>> ELSE WordsOfLine(Head(lines)) \o WordsOfLines(Tail(lines))

TextDrawn(c) ==
  kind[c] = "Profile" /\ pc[c] \in {"roundCorners", "encode", "done"} /\ options[c].bio # <<>>

BioColumn(c) ==
  CanvasWidth("Profile") -
    (options[c].padding.left + (IF options[c].layout = "horizontal" THEN 100 ELSE 120) + 60)

\* C10 (as claimed): every line of the wrapped bio measures at most max width,
\* except a line that is a single word itself wider than max width; and the lines
\* hold every word of the bio once, in the original order.
C10_LinesWithinColumn ==
  \A c \in CardIds :
    TextDrawn(c) =>
      LET lines == BioLines(trace[c])
      IN /\ \A j \in 1..Len(lines) :
              \/ measureText(lines[j]) <= BioColumn(c)
              \/ /\ Len(WordsOfLine(lines[j])) = 1
                 /\ measureText(WordsOfLine(lines[j])[1]) > BioColumn(c)
         /\ WordsOfLines(lines) = split(options[c].bio)

\* C10 (amended): every line of the wrapped bio, measured with the space the wrap
\* appends after each word, is at most max width, except a line that is a single
\* word followed by that space; and the lines hold every word of the bio once, in
\* the original order.
C10_LinesWithinColumnOrOneWord ==
  \A c \in CardIds :
    TextDrawn(c) =>
      LET lines == BioLines(trace[c])
      IN /\ \A j \in 1..Len(lines) :
              \/ measureText(lines[j]) <= BioColumn(c)
              \/ /\ Len(WordsOfLine(lines[j])) = 1
                 /\ lines[j] = WordsOfLine(lines[j])[1] \o <<" ">>
         /\ WordsOfLines(lines) = split(options[c].bio)

C10_Witness ==
  /\ TextDrawn(1)
  /\ pc[1] = "done"
  /\ LET lines == BioLines(trace[1])
     IN /\ Len(lines) >= 2
        /\ \E j \in 1..Len(lines) :
             Len(WordsOfLine(lines[j])) = 1 /\ measureText(lines[j]) > BioColumn(1)
        /\ \E j \in 1..Len(lines) :
             /\ measureText(lines[j]) <= BioColumn(1)
             /\ \A w \in 1..Len(WordsOfLine(lines[j])) : WordsOfLine(lines[j])[w] # <<>>

\* ------------------------------------------------- claims on the encoded image
Finished(c) == kind[c] # "none" /\ pc[c] = "done"

\* The rounded rectangle of toBuffer, as the path that clip() takes.
RoundedPath(k, o) == SelectSeq(RoundedCorners(k, o), LAMBDA call : call.call \in PathCalls)
ClippedBy(entry, path) == \E j \in 1..Len(entry.clip) : entry.clip[j] = path

\* C11: when borderRadius > 0 the encoded image has rounded corners: everything the
\* earlier stages painted on the surface was painted restricted to the
\* rounded-rectangle path, so the corners outside it carry no drawn pixels.
C11_PaintingRestrictedToRoundedCorners ==
  \A c \in CardIds :
    (Finished(c) /\ options[c].borderRadius > 0) =>
      LET image == result[c].bytes.image
      IN \A i \in 1..Len(image) : ClippedBy(image[i], RoundedPath(kind[c], options[c]))

\* ------------------------------------------------- claims on the avatar decode
\* The last entry of card c's trace: the decode of the fetched avatar body failed.
RemoteDecodeFailed(c) ==
  /\ kind[c] # "none"
  /\ ~IsLocal(options[c].avatarUrl)
  /\ Len(trace[c]) > 0
  /\ FailedAt(c, Len(trace[c]), "avatar")
  /\ trace[c][Len(trace[c])].step = "image"

\* C14: when a remote avatar is fetched successfully but its body fails to decode,
\* toBuffer rejects with a load error whose message includes the avatar reference
\* and the underlying cause, wrapped by loadAvatar's catch block as fetch failures are.
C14_DecodeFailureIsWrapped ==
  \A c \in CardIds :
    RemoteDecodeFailed(c) =>
      /\ pc[c] = "rejected"
      /\ result[c].state = "rejected"
      /\ result[c].error = Wrapped(options[c].avatarUrl, ImageError)

\* ------------------------------------------------- claims on ProfileCard's text
TextCalls(c, part) ==
  {e \in Entries(c) : e.event = "call" /\ e.call.call = "fillText" /\ e.call.part = part}

\* C16: every successful ProfileCard render draws the username and the
\* discriminator in the text stage, for both layouts.
C16_UsernameDrawnInBothLayouts ==
  \A c \in CardIds :
    (Finished(c) /\ kind[c] = "Profile") =>
      /\ options[c].layout \in {"vertical", "horizontal"}
      /\ \E e \in TextCalls(c, "username") :
           e.stage = "text" /\ e.call.text = <<options[c].username>>
      /\ \E e \in TextCalls(c, "discriminator") :
           e.stage = "text" /\ e.call.text = <<options[c].discriminator>>

\* ------------------------------------------------- claims on ProfileCard's badges
\* The badges a ProfileCard has drawn, in order.
RECURSIVE BadgeCalls(_)
BadgeCalls(tr) ==
  IF tr = <<>> THEN <<>>
  ELSE IF Head(tr).event = "call" /\ Head(tr).call.call = "fillText" /\ Head(tr).call.part = "badge"
         THEN <<Head(tr).call>> \o BadgeCalls(Tail(tr))
         ELSE BadgeCalls(Tail(tr))

BadgesDrawn(c) ==
  kind[c] = "Profile" /\ pc[c] \in {"roundCorners", "encode", "done"} /\ Len(options[c].badges) > 0
BadgeColumn(c) ==
  options[c].padding.left + (IF options[c].layout = "horizontal" THEN 100 ELSE 120) + 30
BadgeLimit(c) == CanvasWidth("Profile") - options[c].padding.right

\* The badge after `previous` would extend past the canvas width minus the right padding.
Overflows(c, previous, badge) ==
  previous.x + measureText(previous.text) + 10 + measureText(badge.text) > BadgeLimit(c)
Overlap(a, b) ==
  a.y = b.y /\ a.x < b.x + measureText(b.text) /\ b.x < a.x + measureText(a.text)

\* C15: when the next badge would extend past the canvas width minus the right
\* padding it is drawn on a new line: its x is the start of the text column and its
\* y is strictly greater than the previous line's y; so no two badges overlap.
C15_OverflowingBadgeStartsNewLine ==
  \A c \in CardIds :
    BadgesDrawn(c) =>
      LET bs == BadgeCalls(trace[c])
      IN /\ \A i \in 2..Len(bs) :
              Overflows(c, bs[i - 1], bs[i]) =>
                bs[i].x = BadgeColumn(c) /\ bs[i].y > bs[i - 1].y
         /\ \A i, j \in 1..Len(bs) : i < j => ~Overlap(bs[i], bs[j])

\* ------------------------------------------------- claims on a second toBuffer
\* The position of the first encode of a trace (0 when there is none).
FirstEncode(tr) ==
  IF Encodes(tr) = 0 THEN 0
  ELSE CHOOSE i \in 1..Len(tr) :
         tr[i].event = "encode" /\ \A j \in 1..(i - 1) : tr[j].event # "encode"

\* What the first toBuffer call did on the surface, and what the second did.
FirstRender(c) == SubSeq(trace[c], 1, FirstEncode(trace[c]))
SecondRender(c) == SubSeq(trace[c], FirstEncode(trace[c]) + 1, Len(trace[c]))
RenderedTwice(c) == kind[c] # "none" /\ pc[c] = "done" /\ Encodes(trace[c]) = 2

\* C12: a generator holds no state beyond one render: a second toBuffer call, made
\* after the first completed, starts from the same surface state as the first (no
\* pixels, clip region or other context state left over), so it makes the same
\* calls under the same context state and both calls return the same image.
C12_SecondRenderSameAsFirst ==
  \A c \in CardIds :
    RenderedTwice(c) =>
      /\ SecondRender(c) = FirstRender(c)
      /\ result[c].bytes.image = Painted(FirstRender(c))

\* ------------------------------------------- claims on concurrent generators
\* What one generator owns besides its options: its position in toBuffer, its
\* context, what it has done on its surface, and what its toBuffer returned.
Local(c) == [pc |-> pc[c], ctx |-> ctx[c], trace |-> trace[c], result |-> result[c]]
LocalAfter(c) == [pc |-> pc'[c], ctx |-> ctx'[c], trace |-> trace'[c], result |-> result'[c]]

\* A generator running alone, as a relation on what it owns: from L it continues
\* with the entries `before`, the calls and the entries `after`, or it rejects.
AloneProceeds(L, stage, before, calls, after, next) ==
  LET r == RunCalls(L.ctx, L.trace \o before, stage, calls)
  IN [pc |-> next, ctx |-> r.ctx, trace |-> r.trace \o after, result |-> L.result]
AloneRejects(L, event, error) ==
  [ pc |-> "rejected", ctx |-> L.ctx, trace |-> Append(L.trace, event),
    result |-> [state |-> "rejected", error |-> error] ]

\* One step of toBuffer of a generator of type k with options o that runs alone:
\* from L to M, whatever any other generator is doing.
AloneStep(k, o, L, M) ==
  LET stage == AvatarStage(k)
      after(s) == AfterStage(k, s)
      settled(what, step, success) == Settled(IF what = "avatar" THEN stage ELSE "background",
                                              what, step, success, NoResponse)
  IN CASE L.pc = "idle" ->
            M = IF k = "Welcome"
                  THEN AloneProceeds(L, "background", <<>>, <<>>, <<LoadAvatar(k, o).event>>,
                                     LoadAvatar(k, o).next)
                  ELSE IF o.backgroundImage # ""
                    THEN AloneProceeds(L, "background", <<>>, BackgroundFill(k, o),
                                       <<Load("background", "background", "image")>>,
                                       "loadBackground")
                    ELSE AloneProceeds(L, "background", <<>>,
                                       BackgroundFill(k, o) \o GradientOverlay(k), <<>>,
                                       after("background"))
       [] L.pc = "loadBackground" ->
            \/ M = AloneProceeds(L, "background", <<settled("background", "image", TRUE)>>,
                                 BackgroundImage(k) \o GradientOverlay(k), <<>>,
                                 after("background"))
            \/ M = AloneRejects(L, settled("background", "image", FALSE), ImageError)
       [] L.pc = "drawAvatar" ->
            M = IF k = "Welcome"
                  THEN AloneProceeds(L, "avatar", <<>>, <<>>, <<>>, after("avatar"))
                  ELSE AloneProceeds(L, "avatar", <<>>, AvatarFrame(k, o),
                                     <<LoadAvatar(k, o).event>>, LoadAvatar(k, o).next)
       [] L.pc = "fetch" ->
            \/ \E response \in Responses :
                 M = IF ok(response)
                       THEN AloneProceeds(L, stage,
                                          <<Settled(stage, "avatar", "fetch", TRUE, response)>>,
                                          <<>>, <<Load(stage, "avatar", "arrayBuffer")>>,
                                          "arrayBuffer")
                       ELSE AloneRejects(L, Settled(stage, "avatar", "fetch", FALSE, response),
                                         Wrapped(o.avatarUrl, FetchFailed(response)))
            \/ M = AloneRejects(L, settled("avatar", "fetch", FALSE),
                                Wrapped(o.avatarUrl, NetworkError(o.avatarUrl)))
       [] L.pc = "arrayBuffer" ->
            \/ M = AloneProceeds(L, stage, <<settled("avatar", "arrayBuffer", TRUE)>>, <<>>,
                                 <<Load(stage, "avatar", "image")>>, "image")
            \/ M = AloneRejects(L, settled("avatar", "arrayBuffer", FALSE),
                                Wrapped(o.avatarUrl, BodyError))
       [] L.pc = "image" ->
            \/ M = IF k = "Welcome"
                     THEN AloneProceeds(L, "background", <<settled("avatar", "image", TRUE)>>,
                                        BlurredAvatar(k) \o GradientOverlay(k), <<>>,
                                        after("background"))
                     ELSE AloneProceeds(L, "avatar", <<settled("avatar", "image", TRUE)>>,
                                        AvatarImage(k, o), <<>>, after("avatar"))
            \/ M = AloneRejects(L, settled("avatar", "image", FALSE), ImageError)
       [] L.pc = "drawText" ->
            M = AloneProceeds(L, "text", <<>>,
                              CASE k = "Profile" -> ProfileDrawText(o)
                                [] k = "Welcome" -> WelcomeDrawText(o)
                                [] k = "Rank" -> drawRankInfo(o),
                              <<>>, after("text"))
       [] L.pc = "decorate" ->
            M = AloneProceeds(L, "decoration", <<>>,
                              IF k = "Rank" THEN drawXPInfo(o) ELSE drawAccentBar(o),
                              <<>>, after("decoration"))
       [] L.pc = "roundCorners" ->
            M = AloneProceeds(L, "corner-mask", <<>>, RoundedCorners(k, o),
                              <<[event |-> "encode", stage |-> "encode", format |-> "png"]>>,
                              "encode")
       [] L.pc = "encode" ->
            M = [L EXCEPT !.pc = "done",
                          !.result = [ state |-> "fulfilled",
                                       bytes |-> [ format |-> "png", width |-> CanvasWidth(k),
                                                   height |-> CanvasHeight(k),
                                                   image |-> Painted(L.trace) ] ]]
       [] OTHER -> FALSE

\* C13: when several generators run toBuffer at the same time, with their awaits and
\* stages interleaved in any order, every step is a step of one generator only: it
\* is the step that generator takes when it runs alone, from what it owns and its
\* own options, and it leaves the options, context, surface and result of every
\* other generator as they were.
C13_EachGeneratorRunsAsAlone ==
  [][\A c \in CardIds :
       LocalAfter(c) # Local(c) =>
         /\ AloneStep(kind[c], options[c], Local(c), LocalAfter(c))
         /\ \A d \in CardIds \ {c} : LocalAfter(d) = Local(d)
         /\ UNCHANGED <<kind, input, options, calculated>>]_vars

\* Two generators of different types are both suspended at an await of toBuffer.
C13_Witness ==
  /\ kind[1] # kind[2]
  /\ pc[1] \in {"loadBackground", "fetch", "arrayBuffer", "image", "encode"}
  /\ pc[2] \in {"loadBackground", "fetch", "arrayBuffer", "image", "encode"}
  /\ trace[1] # <<>>
  /\ trace[2] # <<>>

====
